---- MODULE Spec2Model ----
(***************************************************************************)
(* jira_query: request construction, authentication and pagination of the  *)
(* Jira client in src/src/access.rs.                                       *)
(*                                                                         *)
(* Strings are sequences of one-character strings, so that format! and     *)
(* join are modelled by what they produce, character by character.         *)
(* Issues are opaque to access.rs (it only counts and moves them), so an   *)
(* issue is labelled by where it came from: <<request number, position in  *)
(* the page>>.  Any real content is an image of these labels.              *)
(***************************************************************************)
EXTENDS Integers, Sequences, FiniteSets, TLC

VARIABLES
    host,        \* JiraInstance.host
    auth,        \* JiraInstance.auth
    pagination,  \* JiraInstance.pagination
    client,      \* JiraInstance.client
    pc,          \* position of the one operation: idle, send, json, done
    op,          \* the running operation: its name, its Method, its chunk_size
    all_issues,  \* paginated_issues: the accumulator
    start_at,    \* paginated_issues: the offset of the current request
    requests,    \* HTTP requests issued by the current operation, in order
    resp,        \* the outcome of the last send(): no response, or the response
    pages,       \* the sizes of the pages decoded so far, by request
    result,      \* the value the operation returned
    probe,       \* a direct call of path(): its inputs and the URL it built
    remote,      \* the remote's store, where the remote is a fixed one
    last_step,   \* the builder step taken last, while the instance is built
    tasks,       \* the suspended operations, where several share the instance
    current      \* the operation that is being polled

vars == <<host, auth, pagination, client, pc, op, all_issues, start_at,
          requests, resp, pages, result, probe, remote, last_step, tasks,
          current>>

-----------------------------------------------------------------------------
(* Bounds of the model *)

\* Largest n of MaxResults(n) and ChunkSize(n) that is configured.
MaxN == 2
\* Largest number of issues the remote puts in one page.
MaxPage == 2
\* Largest number of keys in one issues() call.
MaxKeys == 3
\* Largest number of requests one operation is followed for.
MaxRequests == 4
\* Largest offset handed to path() directly.
MaxStartAt == 11
\* Largest number of matching issues a fixed remote holds.
MaxTotal == 3

-----------------------------------------------------------------------------
(* Strings *)

DigitChars == <<"0", "1", "2", "3", "4", "5", "6", "7", "8", "9">>

\* format!("{n}") of a u32: its decimal digits.
RECURSIVE ToDigits(_)
ToDigits(n) ==
    IF n < 10 THEN <<DigitChars[n + 1]>>
    ELSE ToDigits(n \div 10) \o <<DigitChars[(n % 10) + 1]>>

\* ids.join(","): the strings, unchanged, with one comma between neighbours.
RECURSIVE join(_)
join(ids) ==
    IF Len(ids) = 0 THEN <<>>
    ELSE IF Len(ids) = 1 THEN ids[1]
    ELSE ids[1] \o <<",">> \o join(Tail(ids))

\* const REST_PREFIX: &str = "rest/api/2"
REST_PREFIX == <<"r", "e", "s", "t", "/", "a", "p", "i", "/", "2">>

-----------------------------------------------------------------------------
(* Types of access.rs *)

\* enum Auth.  secret holds the token, or the user and the password.
Anonymous == [tag |-> "Anonymous", secret |-> <<>>]
ApiKey(key) == [tag |-> "ApiKey", secret |-> <<key>>]
Basic(user, password) == [tag |-> "Basic", secret |-> <<user, password>>]

\* enum Pagination.  n is meaningless (0) for Default.
Default == [tag |-> "Default", n |-> 0]
MaxResults(n) == [tag |-> "MaxResults", n |-> n]
ChunkSize(n) == [tag |-> "ChunkSize", n |-> n]

\* enum Method.  arg is the sequence of strings the variant carries: the one
\* id, the ids, or the one query.
Key(id) == [tag |-> "Key", arg |-> <<id>>]
Keys(ids) == [tag |-> "Keys", arg |-> ids]
Search(query) == [tag |-> "Search", arg |-> <<query>>]

-----------------------------------------------------------------------------
(* Inputs *)

HostPool == { <<"h">> }
AuthPool == { Anonymous, ApiKey("t"), Basic("u", "p") }
ClientPool == { "default", "custom" }
PaginationPool ==
    {Default} \cup { MaxResults(n) : n \in 0..MaxN } \cup { ChunkSize(n) : n \in 0..MaxN }

\* Issue keys of the operations: a plain one, and one with reserved characters.
KeyPool == { <<"A">>, <<"B", " ", ",">> }
QueryPool == { <<"q">>, <<"x", "=", "1", "&", "y">> }

\* Ids handed to path() directly.
PathIdPool == { <<"A">>, <<"B", " ", ",">>, <<"C", "&">>, <<")">> }

RECURSIVE SeqsUpTo(_, _)
SeqsUpTo(S, n) ==
    IF n = 0 THEN { <<>> }
    ELSE LET shorter == SeqsUpTo(S, n - 1)
         IN  shorter \cup { Append(s, x) : s \in { t \in shorter : Len(t) = n - 1 }, x \in S }

KeyLists == SeqsUpTo(KeyPool, MaxKeys)

PathMethods ==
    { Key(id) : id \in PathIdPool }
      \cup { Keys(ids) : ids \in SeqsUpTo(PathIdPool, 2) \ { <<>> } }
      \cup { Search(q) : q \in QueryPool }

-----------------------------------------------------------------------------
(* URL builder *)

\* Method::url_fragment
url_fragment(method) ==
    CASE method.tag = "Key" ->
           <<"i", "s", "s", "u", "e", "/">> \o method.arg[1]
      [] method.tag = "Keys" ->
           <<"s", "e", "a", "r", "c", "h", "?", "j", "q", "l", "=",
             "i", "d", "%", "2", "0", "i", "n", "%", "2", "0", "(">>
             \o join(method.arg) \o <<")">>
      [] method.tag = "Search" ->
           <<"s", "e", "a", "r", "c", "h", "?", "j", "q", "l", "=">> \o method.arg[1]

\* path(): let max_results = match self.pagination { ... }
max_results_param(p) ==
    IF p.tag = "Default" THEN <<>>
    ELSE <<"&", "m", "a", "x", "R", "e", "s", "u", "l", "t", "s", "=">> \o ToDigits(p.n)

\* path(): let start_at = match method { ... }
StartAtZero(method, offset) ==
    IF method.tag = "Key" THEN <<>>
    ELSE <<"&", "s", "t", "a", "r", "t", "A", "t", "=", "0">>
start_at_param(method, offset) ==
    IF method.tag = "Key" THEN <<>>
    ELSE <<"&", "s", "t", "a", "r", "t", "A", "t", "=">> \o ToDigits(offset)

\* JiraInstance::path: format!("{}/{}/{}{}{}", host, REST_PREFIX, fragment,
\* max_results, start_at)
path(method, offset) ==
    host \o <<"/">> \o REST_PREFIX \o <<"/">> \o url_fragment(method)
      \o max_results_param(pagination) \o start_at_param(method, offset)

-----------------------------------------------------------------------------
(* Values of the operations *)

\* Result<_, JiraQueryError>.  issue() returns one Issue: a list of one.
Pending == [tag |-> "Pending", issues |-> <<>>, err |-> "none"]
Ok(issues) == [tag |-> "Ok", issues |-> issues, err |-> "none"]
Err(e) == [tag |-> "Err", issues |-> <<>>, err |-> e]

NoOp == [name |-> "none", method |-> Key(<<>>), chunked |-> FALSE, chunk_size |-> 0]

\* The outcome of send(): "failed" when no response arrived, else the
\* response's status, whether its body matches the schema json() is asked
\* for, and the number of issues in the body.
NoResp == [net |-> "none", status |-> 0, schema |-> FALSE, len |-> 0]
NetFailed == [net |-> "failed", status |-> 0, schema |-> FALSE, len |-> 0]
Response(status, schema, len) ==
    [net |-> "ok", status |-> status, schema |-> schema, len |-> len]

\* What the remote may answer: a page of any size up to MaxPage (one issue
\* for the single-issue endpoint), a body that is not of the schema, or a
\* failure status, whose body is an error document and not of the schema.
Responses(name) ==
    { Response(200, TRUE, n) : n \in (IF name = "issue" THEN {1} ELSE 0..MaxPage) }
      \cup { Response(200, FALSE, 0), Response(404, FALSE, 0) }

\* The issues of the page that answers request number r.
Page(r, len) == [i \in 1..len |-> <<r, i>>]

-----------------------------------------------------------------------------
(* Authenticator *)

\* authenticated_get: what the request carries for self.auth
CredentialDropped(a) == [scheme |-> "none", value |-> <<>>]
credential(a) ==
    CASE a.tag = "Anonymous" -> [scheme |-> "none", value |-> <<>>]
      [] a.tag = "ApiKey" -> [scheme |-> "Bearer", value |-> a.secret]
      [] a.tag = "Basic" -> [scheme |-> "Basic", value |-> a.secret]

\* The GET that chunk_of_issues and issue hand to authenticated_get.
Request(method, offset) ==
    [method |-> method, start_at |-> offset, url |-> path(method, offset),
     authorization |-> credential(auth), client |-> client]

-----------------------------------------------------------------------------
(* Decisions of the operations *)

\* issues: if keys.is_empty()
KeysNeverEmpty(keys) == FALSE
keys_is_empty(keys) == Len(keys) = 0

\* issue: Method::Key(key)
IssueByKeys(key) == Keys(<<key>>)
issue_method(key) == Key(key)

\* issues, not chunked: if issues.is_empty() { Err(NoIssues) } else { Ok(issues) }
IssuesAlwaysOk(issues) == Ok(issues)
issues_result(issues) ==
    IF Len(issues) = 0 THEN Err("NoIssues") ELSE Ok(issues)

\* search, not chunked: Ok(issues)
SearchLikeIssues(issues) ==
    IF Len(issues) = 0 THEN Err("NoIssues") ELSE Ok(issues)
search_result(issues) == Ok(issues)

\* paginated_issues: if page_size < chunk_size as usize { break; }
LastPageWhenEmpty(page_size, chunk_size) == page_size = 0
LastPageWhenFull(page_size, chunk_size) == page_size <= chunk_size
last_page(page_size, chunk_size) == page_size < chunk_size

\* paginated_issues: start_at += chunk_size.  The sum stays far below 2^32
\* within the bounds of the model.
NextStartAtByOne(offset, chunk_size) == offset + 1
next_start_at(offset, chunk_size) == offset + chunk_size

\* paginated_issues: Ok(all_issues)
PaginatedLikeIssues(issues) ==
    IF Len(issues) = 0 THEN Err("NoIssues") ELSE Ok(issues)
paginated_result(issues) == Ok(issues)

\* The ? operator on a failed call: the error is returned, the accumulator
\* is dropped.
PartialOnError(e, acc) == Ok(acc)
propagate(e, acc) == Err(e)

-----------------------------------------------------------------------------
(* Configuration: the builder *)

\* The builder step taken last and the value it was given, in the field of
\* that name: the chain of builder calls is over once an operation borrows
\* the instance.
NoStep ==
    [field |-> "none", auth |-> Anonymous, pagination |-> Default,
     client |-> "default"]

\* No fixed remote: the remote answers as it likes.
NoRemote == [total |-> 0, cap |-> 0, fixed |-> FALSE]

\* The operations that share one instance: each is a future with its own
\* locals, kept in the future while another one is polled.
Task == {1, 2}

IdleLocals ==
    [pc |-> "idle", op |-> NoOp, all_issues |-> <<>>, start_at |-> 0,
     requests |-> <<>>, resp |-> NoResp, pages |-> <<>>, result |-> Pending]

NoTasks == [t \in Task |-> IdleLocals]

\* JiraInstance::at
at ==
    /\ host \in HostPool
    /\ auth = Anonymous
    /\ pagination = Default
    /\ client = "default"

Init ==
    /\ at
    /\ pc = "idle"
    /\ op = NoOp
    /\ all_issues = <<>>
    /\ start_at = 0
    /\ requests = <<>>
    /\ resp = NoResp
    /\ pages = <<>>
    /\ result = Pending
    /\ probe = [method |-> Key(<<>>), start_at |-> 0, url |-> <<>>, built |-> FALSE]
    /\ remote = NoRemote
    /\ last_step = NoStep
    /\ tasks = NoTasks
    /\ current = 1

\* The builder steps consume the instance, so they come before the
\* operations, which borrow it.
authenticate(a) ==
    /\ pc = "idle"
    /\ auth' = a
    /\ last_step' = [NoStep EXCEPT !.field = "auth", !.auth = a]
    /\ UNCHANGED <<host, pagination, client, pc, op, all_issues, start_at,
                   requests, resp, pages, result, probe, remote,
                   tasks, current>>

with_client(c) ==
    /\ pc = "idle"
    /\ client' = c
    /\ last_step' = [NoStep EXCEPT !.field = "client", !.client = c]
    /\ UNCHANGED <<host, auth, pagination, pc, op, all_issues, start_at,
                   requests, resp, pages, result, probe, remote,
                   tasks, current>>

PaginateResetsAuth(p) ==
    /\ pc = "idle"
    /\ pagination' = p
    /\ auth' = Anonymous
    /\ last_step' = [NoStep EXCEPT !.field = "pagination", !.pagination = p]
    /\ UNCHANGED <<host, client, pc, op, all_issues, start_at,
                   requests, resp, pages, result, probe, remote,
                   tasks, current>>

paginate(p) ==
    /\ pc = "idle"
    /\ pagination' = p
    /\ last_step' = [NoStep EXCEPT !.field = "pagination", !.pagination = p]
    /\ UNCHANGED <<host, auth, client, pc, op, all_issues, start_at,
                   requests, resp, pages, result, probe, remote,
                   tasks, current>>

-----------------------------------------------------------------------------
(* The operations, up to their first await or their return *)

\* One operation is followed per behaviour.  The operations borrow the
\* instance and leave it as it was, so a later call starts where this one did.
Callable == pc = "idle"

\* Entering a call: let mut all_issues = Vec::new(); let mut start_at = 0;
Fresh ==
    /\ all_issues' = <<>>
    /\ start_at' = 0
    /\ resp' = NoResp
    /\ pages' = <<>>
    /\ last_step' = NoStep
    /\ UNCHANGED <<host, auth, pagination, client, probe, remote, tasks,
                   current>>

\* JiraInstance::issue
issue(key) ==
    /\ Callable
    /\ Fresh
    /\ op' = [name |-> "issue", method |-> issue_method(key),
              chunked |-> FALSE, chunk_size |-> 0]
    /\ requests' = <<Request(issue_method(key), 0)>>
    /\ result' = Pending
    /\ pc' = "send"

\* JiraInstance::issues
issues(keys) ==
    /\ Callable
    /\ Fresh
    /\ op' = [name |-> "issues", method |-> Keys(keys),
              chunked |-> pagination.tag = "ChunkSize",
              chunk_size |-> IF pagination.tag = "ChunkSize" THEN pagination.n ELSE 0]
    /\ IF keys_is_empty(keys)
       THEN /\ requests' = <<>>
            /\ result' = Ok(<<>>)
            /\ pc' = "done"
       ELSE /\ requests' = <<Request(Keys(keys), 0)>>
            /\ result' = Pending
            /\ pc' = "send"

\* JiraInstance::search
search(query) ==
    /\ Callable
    /\ Fresh
    /\ op' = [name |-> "search", method |-> Search(query),
              chunked |-> pagination.tag = "ChunkSize",
              chunk_size |-> IF pagination.tag = "ChunkSize" THEN pagination.n ELSE 0]
    /\ requests' = <<Request(Search(query), 0)>>
    /\ result' = Pending
    /\ pc' = "send"

-----------------------------------------------------------------------------
(* The awaits *)

\* authenticated_get(..).await? fails: no response.
SendError ==
    /\ pc = "send"
    /\ resp' = NetFailed
    /\ result' = propagate("Transport", all_issues)
    /\ all_issues' = <<>>
    /\ pc' = "done"
    /\ UNCHANGED <<host, auth, pagination, client, op, start_at, requests,
                   pages, probe, remote, last_step, tasks, current>>

\* authenticated_get(..).await? yields a response, of any status.
SendResponse ==
    /\ pc = "send"
    /\ resp' \in Responses(op.name)
    /\ pc' = "json"
    /\ UNCHANGED <<host, auth, pagination, client, op, all_issues, start_at,
                   requests, pages, result, probe, remote, last_step,
                   tasks, current>>

\* .json::<T>().await? fails: the body is not of the schema.
JsonError ==
    /\ pc = "json"
    /\ ~resp.schema
    /\ result' = propagate("Decode", all_issues)
    /\ all_issues' = <<>>
    /\ pc' = "done"
    /\ UNCHANGED <<host, auth, pagination, client, op, start_at, requests,
                   resp, pages, probe, remote, last_step, tasks, current>>

\* issue: the body decodes to the Issue; Ok(issue).
IssueDecoded ==
    /\ pc = "json"
    /\ resp.schema
    /\ op.name = "issue"
    /\ pages' = Append(pages, resp.len)
    /\ result' = Ok(Page(Len(requests), resp.len))
    /\ pc' = "done"
    /\ UNCHANGED <<host, auth, pagination, client, op, all_issues, start_at,
                   requests, resp, probe, remote, last_step, tasks, current>>

\* issues, not chunked: the one chunk_of_issues returns its page.
IssuesDecoded ==
    /\ pc = "json"
    /\ resp.schema
    /\ op.name = "issues"
    /\ ~op.chunked
    /\ pages' = Append(pages, resp.len)
    /\ result' = issues_result(Page(Len(requests), resp.len))
    /\ pc' = "done"
    /\ UNCHANGED <<host, auth, pagination, client, op, all_issues, start_at,
                   requests, resp, probe, remote, last_step, tasks, current>>

\* search, not chunked: the one chunk_of_issues returns its page.
SearchDecoded ==
    /\ pc = "json"
    /\ resp.schema
    /\ op.name = "search"
    /\ ~op.chunked
    /\ pages' = Append(pages, resp.len)
    /\ result' = search_result(Page(Len(requests), resp.len))
    /\ pc' = "done"
    /\ UNCHANGED <<host, auth, pagination, client, op, all_issues, start_at,
                   requests, resp, probe, remote, last_step, tasks, current>>

\* paginated_issues: the page is appended and is the last one; Ok(all_issues).
ChunkDecodedLast ==
    /\ pc = "json"
    /\ resp.schema
    /\ op.chunked
    /\ last_page(resp.len, op.chunk_size)
    /\ pages' = Append(pages, resp.len)
    /\ all_issues' = all_issues \o Page(Len(requests), resp.len)
    /\ result' = paginated_result(all_issues')
    /\ pc' = "done"
    /\ UNCHANGED <<host, auth, pagination, client, op, start_at, requests,
                   resp, probe, remote, last_step, tasks, current>>

\* paginated_issues: the page is appended and is not the last one; the loop
\* requests the next chunk.
ChunkDecodedMore ==
    /\ pc = "json"
    /\ resp.schema
    /\ op.chunked
    /\ ~last_page(resp.len, op.chunk_size)
    /\ Len(requests) < MaxRequests
    /\ pages' = Append(pages, resp.len)
    /\ all_issues' = all_issues \o Page(Len(requests), resp.len)
    /\ start_at' = next_start_at(start_at, op.chunk_size)
    /\ requests' = Append(requests, Request(op.method, start_at'))
    /\ pc' = "send"
    /\ UNCHANGED <<host, auth, pagination, client, op, resp, result, probe, remote, last_step,
                   tasks, current>>

Next ==
    \/ \E a \in AuthPool : authenticate(a)
    \/ \E c \in ClientPool : with_client(c)
    \/ \E p \in PaginationPool : paginate(p)
    \/ \E key \in KeyPool : issue(key)
    \/ \E keys \in KeyLists : issues(keys)
    \/ \E query \in QueryPool : search(query)
    \/ SendError
    \/ SendResponse
    \/ JsonError
    \/ IssueDecoded
    \/ IssuesDecoded
    \/ SearchDecoded
    \/ ChunkDecodedLast
    \/ ChunkDecodedMore

Spec == Init /\ [][Next]_vars

-----------------------------------------------------------------------------
(* The operations against a fixed remote *)

\* A remote that holds an ordered list of total matching issues, never puts
\* more than cap issues in a page, and answers every request.
Remotes ==
    { [total |-> t, cap |-> m, fixed |-> TRUE] : t \in 0..MaxTotal, m \in 1..MaxPage }

Min(a, b) == IF a < b THEN a ELSE b

\* The number of issues in the remote's answer to a request: one issue for
\* the single-issue endpoint, else the issues from the request's startAt on,
\* up to its maxResults and the remote's own cap.
RemotePageLen(req) ==
    IF req.method.tag = "Key" THEN 1
    ELSE LET limit == IF pagination.tag = "Default" THEN remote.cap
                      ELSE Min(pagination.n, remote.cap)
             left == IF req.start_at < remote.total
                     THEN remote.total - req.start_at ELSE 0
         IN  Min(limit, left)

RemoteInit ==
    /\ at
    /\ pc = "idle"
    /\ op = NoOp
    /\ all_issues = <<>>
    /\ start_at = 0
    /\ requests = <<>>
    /\ resp = NoResp
    /\ pages = <<>>
    /\ result = Pending
    /\ probe = [method |-> Key(<<>>), start_at |-> 0, url |-> <<>>, built |-> FALSE]
    /\ remote \in Remotes
    /\ last_step = NoStep
    /\ tasks = NoTasks
    /\ current = 1

\* authenticated_get(..).await? yields the remote's answer.
RemoteResponds ==
    /\ pc = "send"
    /\ remote.fixed
    /\ resp' = Response(200, TRUE, RemotePageLen(requests[Len(requests)]))
    /\ pc' = "json"
    /\ UNCHANGED <<host, auth, pagination, client, op, all_issues, start_at,
                   requests, pages, result, probe, remote, last_step,
                   tasks, current>>

RemoteNext ==
    \/ \E a \in AuthPool : authenticate(a)
    \/ \E c \in ClientPool : with_client(c)
    \/ \E p \in PaginationPool : paginate(p)
    \/ \E key \in KeyPool : issue(key)
    \/ \E keys \in KeyLists : issues(keys)
    \/ \E query \in QueryPool : search(query)
    \/ RemoteResponds
    \/ IssueDecoded
    \/ IssuesDecoded
    \/ SearchDecoded
    \/ ChunkDecodedLast
    \/ ChunkDecodedMore

SpecRemote == RemoteInit /\ [][RemoteNext]_vars

-----------------------------------------------------------------------------
(* Several operations on one shared instance *)

\* The locals of the operation that is being polled.
Locals ==
    [pc |-> pc, op |-> op, all_issues |-> all_issues, start_at |-> start_at,
     requests |-> requests, resp |-> resp, pages |-> pages, result |-> result]

\* No operation has borrowed the instance yet.
NoneStarted ==
    /\ pc = "idle"
    /\ \A t \in Task \ {current} : tasks[t].pc = "idle"

\* paginated_issues: let mut all_issues = Vec::new(); is a local of the call,
\* so the accumulator an operation resumes with is the one it was suspended
\* with, not the one of the operation polled before it.
SharedAccumulator(suspended, polled) == polled
resumed_accumulator(suspended, polled) == suspended

\* An .await of the polled operation is pending: the executor polls
\* operation t in its place.
Switch(t) ==
    /\ t # current
    /\ tasks' = [tasks EXCEPT ![current] = Locals, ![t] = IdleLocals]
    /\ current' = t
    /\ pc' = tasks[t].pc
    /\ op' = tasks[t].op
    /\ all_issues' = resumed_accumulator(tasks[t].all_issues, all_issues)
    /\ start_at' = tasks[t].start_at
    /\ requests' = tasks[t].requests
    /\ resp' = tasks[t].resp
    /\ pages' = tasks[t].pages
    /\ result' = tasks[t].result
    /\ UNCHANGED <<host, auth, pagination, client, probe, remote, last_step>>

\* The builder steps take the instance by value: none can run while an
\* operation borrows it.
authenticate_unborrowed(a) == NoneStarted /\ authenticate(a)
paginate_unborrowed(p) == NoneStarted /\ paginate(p)

\* The policies, the keys and the query of the operations that run side by
\* side: one request each, or a loop that goes on after every full page.
ConcPaginationPool == { Default, ChunkSize(MaxPage) }
ConcKeyLists == { <<>>, << <<"A">>, <<"B", " ", ",">> >> }

ConcNext ==
    \/ \E a \in AuthPool : authenticate_unborrowed(a)
    \/ \E p \in ConcPaginationPool : paginate_unborrowed(p)
    \/ issue(<<"A">>)
    \/ \E keys \in ConcKeyLists : issues(keys)
    \/ search(<<"q">>)
    \/ SendError
    \/ SendResponse
    \/ JsonError
    \/ IssueDecoded
    \/ IssuesDecoded
    \/ SearchDecoded
    \/ ChunkDecodedLast
    \/ ChunkDecodedMore
    \/ \E t \in Task : Switch(t)

SpecConc == Init /\ [][ConcNext]_vars

-----------------------------------------------------------------------------
(* The operations left to run for ever *)

\* The remote holds finitely many issues: once the log of requests is full,
\* the pages it still answers are empty.
SendResponseFinite ==
    /\ pc = "send"
    /\ resp' \in { r \in Responses(op.name) :
                     (Len(requests) = MaxRequests /\ r.schema) => r.len = 0 }
    /\ pc' = "json"
    /\ UNCHANGED <<host, auth, pagination, client, op, all_issues, start_at,
                   requests, pages, result, probe, remote, last_step,
                   tasks, current>>

\* paginated_issues: the next iteration of the loop once the log of requests
\* is full.  The request is sent as before and is no longer logged.
ChunkDecodedMoreUnlogged ==
    /\ pc = "json"
    /\ resp.schema
    /\ op.chunked
    /\ ~last_page(resp.len, op.chunk_size)
    /\ Len(requests) = MaxRequests
    /\ all_issues' = all_issues \o Page(Len(requests), resp.len)
    /\ start_at' = next_start_at(start_at, op.chunk_size)
    /\ pc' = "send"
    /\ UNCHANGED <<host, auth, pagination, client, op, requests, resp, pages,
                   result, probe, remote, last_step, tasks, current>>

LiveNext ==
    \/ \E a \in AuthPool : authenticate(a)
    \/ \E c \in ClientPool : with_client(c)
    \/ \E p \in PaginationPool : paginate(p)
    \/ \E key \in KeyPool : issue(key)
    \/ \E keys \in KeyLists : issues(keys)
    \/ \E query \in QueryPool : search(query)
    \/ SendError
    \/ SendResponseFinite
    \/ JsonError
    \/ IssueDecoded
    \/ IssuesDecoded
    \/ SearchDecoded
    \/ ChunkDecodedLast
    \/ ChunkDecodedMore
    \/ ChunkDecodedMoreUnlogged

\* The runtime keeps polling the operation and the remote keeps answering.
SpecLive == Init /\ [][LiveNext]_vars /\ WF_vars(LiveNext)

-----------------------------------------------------------------------------
(* The direct call of path() *)

\* path() is a pure function of the configuration, the method and the
\* offset: it is called on every configuration, method and offset.
\* The policies path() is called under: those of the operations, and the
\* page sizes of the repository's examples.
PathPaginationPool == PaginationPool \cup { MaxResults(10), ChunkSize(30) }

PathInit ==
    /\ host \in HostPool
    /\ auth = Anonymous
    /\ client = "default"
    /\ pagination \in PathPaginationPool
    /\ pc = "idle"
    /\ op = NoOp
    /\ all_issues = <<>>
    /\ start_at = 0
    /\ requests = <<>>
    /\ resp = NoResp
    /\ pages = <<>>
    /\ result = Pending
    /\ remote = NoRemote
    /\ last_step = NoStep
    /\ tasks = NoTasks
    /\ current = 1
    /\ \E m \in PathMethods, s \in 0..MaxStartAt :
           probe = [method |-> m, start_at |-> s, url |-> <<>>, built |-> FALSE]

BuildPath ==
    /\ ~probe.built
    /\ probe' = [probe EXCEPT !.url = path(probe.method, probe.start_at),
                              !.built = TRUE]
    /\ UNCHANGED <<host, auth, pagination, client, pc, op, all_issues, start_at,
                   requests, resp, pages, result, remote, last_step,
                   tasks, current>>

PathNext == BuildPath

SpecPath == PathInit /\ [][PathNext]_vars

-----------------------------------------------------------------------------
(* Vocabulary of the properties *)

\* sub occurs in s.
Contains(s, sub) ==
    \E i \in 1..(Len(s) - Len(sub) + 1) : SubSeq(s, i, i + Len(sub) - 1) = sub

\* The URL holds the parameter &name=n, its value ending with the URL or at
\* the next parameter.
HasParam(url, name, n) ==
    LET p == <<"&">> \o name \o <<"=">> \o ToDigits(n)
    IN  \E i \in 1..(Len(url) - Len(p) + 1) :
            /\ SubSeq(url, i, i + Len(p) - 1) = p
            /\ (i + Len(p) - 1 = Len(url) \/ url[i + Len(p)] = "&")

StartAtName == <<"s", "t", "a", "r", "t", "A", "t">>
MaxResultsName == <<"m", "a", "x", "R", "e", "s", "u", "l", "t", "s">>

\* Percent-escaping of one character of an id, and of an id.
EscapeChar(ch) ==
    CASE ch = " " -> <<"%", "2", "0">>
      [] ch = "," -> <<"%", "2", "C">>
      [] ch = "&" -> <<"%", "2", "6">>
      [] ch = ")" -> <<"%", "2", "9">>
      [] OTHER -> <<ch>>

RECURSIVE Escape(_)
Escape(id) ==
    IF Len(id) = 0 THEN <<>> ELSE EscapeChar(Head(id)) \o Escape(Tail(id))

\* The escaped ids, joined with a literal comma.
RECURSIVE EscapedJoin(_)
EscapedJoin(ids) ==
    IF Len(ids) = 0 THEN <<>>
    ELSE IF Len(ids) = 1 THEN Escape(ids[1])
    ELSE Escape(ids[1]) \o <<",">> \o EscapedJoin(Tail(ids))

\* The pages numbered 1..n, of the given sizes, one after the other.
RECURSIVE ConcatPages(_, _)
ConcatPages(sizes, n) ==
    IF n = 0 THEN <<>> ELSE ConcatPages(sizes, n - 1) \o Page(n, sizes[n])

\* All pages but the last hold exactly c issues, the last holds fewer.
FullThenShort(sizes, c) ==
    /\ Len(sizes) >= 1
    /\ \A i \in 1..(Len(sizes) - 1) : sizes[i] = c
    /\ sizes[Len(sizes)] < c

Ceil(a, b) == (a + b - 1) \div b

\* The g-th group of at most c consecutive keys.
Group(keys, c, g) ==
    SubSeq(keys, (g - 1) * c + 1, IF g * c < Len(keys) THEN g * c ELSE Len(keys))

NotChunked == pagination.tag \in {"Default", "MaxResults"}

\* The last HTTP call came back with a body of the expected schema.
Succeeded == resp.net = "ok" /\ resp.schema

\* The operation has seen its last HTTP call fail, and how.
FailureSeen ==
    \/ resp.net = "failed"
    \/ (resp.net = "ok" /\ ~resp.schema /\ pc # "json")
FailureKind == IF resp.net = "failed" THEN "Transport" ELSE "Decode"

-----------------------------------------------------------------------------
(* Properties *)

\* C1: issues(keys) with an empty key list returns the empty list as a
\* success and issues no HTTP request, under every pagination policy and
\* every auth method.
C1_EmptyKeysNoRequest ==
    (op.name = "issues" /\ Len(op.method.arg) = 0)
        => /\ pc = "done"
           /\ result = Ok(<<>>)
           /\ requests = <<>>

C1_Witness ==
    /\ op.name = "issues"
    /\ Len(op.method.arg) = 0
    /\ pc = "done"
    /\ pagination.tag = "ChunkSize"
    /\ auth.tag = "Basic"

\* C2: for a non-empty key list under Default or MaxResults(n), issues(keys)
\* issues exactly one Keys(keys) request at offset 0; a successful answer of
\* zero issues makes it fail with NoIssues, a successful answer of one or
\* more issues is returned as it is.
C2_SingleKeysRequest ==
    (op.name = "issues" /\ Len(op.method.arg) > 0 /\ NotChunked)
        => /\ Len(requests) = 1
           /\ requests[1].method = Keys(op.method.arg)
           /\ requests[1].start_at = 0
           /\ (pc = "done" /\ Succeeded)
                => IF resp.len = 0
                   THEN result = Err("NoIssues")
                   ELSE result = Ok(Page(1, resp.len))

C2_Witness ==
    /\ op.name = "issues"
    /\ Len(op.method.arg) > 0
    /\ pagination.tag = "MaxResults"
    /\ pc = "done"
    /\ Succeeded
    /\ resp.len = 0
    /\ result = Err("NoIssues")

\* C3: search(query) never fails with NoIssues under any pagination policy;
\* under Default or MaxResults(n) it issues exactly one Search(query) request
\* at offset 0 and returns that page as a success, also when it is empty.
C3_SearchNeverNoIssues ==
    op.name = "search"
        => /\ result.err # "NoIssues"
           /\ NotChunked
                => /\ Len(requests) = 1
                   /\ requests[1].method = Search(op.method.arg[1])
                   /\ requests[1].start_at = 0
                   /\ (pc = "done" /\ Succeeded)
                        => result = Ok(Page(1, resp.len))

C3_Witness ==
    /\ op.name = "search"
    /\ pagination.tag = "Default"
    /\ pc = "done"
    /\ Succeeded
    /\ resp.len = 0
    /\ result = Ok(<<>>)

\* C4: under ChunkSize(c), c > 0, when search was answered j pages of exactly
\* c issues and then one page of k < c issues, it has issued exactly j+1
\* requests, at offsets 0, c, .., j*c in that order, issues no request after
\* the short page, and returns the pages concatenated in request order,
\* j*c + k issues in all.
C4_ChunkedSearchPages ==
    (op.name = "search" /\ op.chunked /\ op.chunk_size > 0
       /\ FullThenShort(pages, op.chunk_size))
        => /\ pc = "done"
           /\ Len(requests) = Len(pages)
           /\ \A i \in 1..Len(requests) :
                  /\ requests[i].start_at = (i - 1) * op.chunk_size
                  /\ requests[i].method = Search(op.method.arg[1])
           /\ result = Ok(ConcatPages(pages, Len(pages)))
           /\ Len(result.issues)
                = (Len(pages) - 1) * op.chunk_size + pages[Len(pages)]

\* The case j = 3: pages of sizes c, c, c, k.
C4_Witness ==
    /\ op.name = "search"
    /\ op.chunked
    /\ op.chunk_size = 2
    /\ pages = <<2, 2, 2, 1>>
    /\ pc = "done"

\* C5: under ChunkSize(c), issues(keys) with a non-empty key list splits the
\* keys into consecutive groups of at most c keys, issues ceil(len(keys)/c)
\* requests, one Keys(group) per group and each at offset 0, and returns the
\* per-group results concatenated in group order.
C5_KeysSplitIntoGroups ==
    (op.name = "issues" /\ op.chunked /\ op.chunk_size > 0
       /\ Len(op.method.arg) > 0 /\ pc = "done" /\ result.tag = "Ok")
        => /\ Len(requests) = Ceil(Len(op.method.arg), op.chunk_size)
           /\ \A g \in 1..Len(requests) :
                  /\ requests[g].method
                       = Keys(Group(op.method.arg, op.chunk_size, g))
                  /\ requests[g].start_at = 0
           /\ result.issues = ConcatPages(pages, Len(pages))

\* C6: in issue, issues and search the first HTTP call that fails, in
\* transport or in decoding, ends the operation: every earlier call had
\* succeeded, no request follows the failed one, the operation returns that
\* error, and none of the issues accumulated from earlier pages.
C6_FirstFailureEnds ==
    FailureSeen
        => /\ pc = "done"
           /\ Len(requests) = Len(pages) + 1
           /\ result.tag = "Err"
           /\ result.err = FailureKind
           /\ result.issues = <<>>

\* A failure after a page of issues had been accumulated.
C6_Witness ==
    /\ op.name = "search"
    /\ FailureSeen
    /\ Len(pages) >= 1
    /\ pages[1] >= 1
    /\ pc = "done"
    /\ result.tag = "Err"

\* C7: under every pagination policy the URL built for Key(id) is exactly
\* host/rest/api/2/issue/id, with no page-size (maxResults) parameter.
C7_KeyUrlHasNoPageSize ==
    (probe.built /\ probe.method.tag = "Key")
        => /\ probe.url
                = host \o <<"/">> \o REST_PREFIX \o <<"/">>
                    \o <<"i", "s", "s", "u", "e", "/">> \o probe.method.arg[1]
           /\ ~Contains(probe.url, MaxResultsName)

\* C8: the built URL holds a startAt parameter, equal to the offset, exactly
\* when the method is Keys or Search, never for Key; for Keys and Search it
\* holds maxResults=n exactly when the policy is MaxResults(n) or
\* ChunkSize(n), never under Default.
C8_OffsetAndPageSizeParams ==
    probe.built
        => /\ HasParam(probe.url, StartAtName, probe.start_at)
                <=> probe.method.tag \in {"Keys", "Search"}
           /\ probe.method.tag = "Key" => ~Contains(probe.url, StartAtName)
           /\ probe.method.tag \in {"Keys", "Search"}
                => /\ \A n \in 0..(MaxN + 1) \cup {10, 30} :
                          HasParam(probe.url, MaxResultsName, n)
                            <=> (pagination.tag # "Default" /\ pagination.n = n)
                   /\ pagination.tag = "Default"
                        => ~Contains(probe.url, MaxResultsName)

\* build(Keys(["A", "B,"]), MaxResults(10), 5)
C8_Witness ==
    /\ probe.built
    /\ probe.method.tag = "Keys"
    /\ Len(probe.method.arg) = 2
    /\ pagination = MaxResults(10)
    /\ probe.start_at = 5
    /\ HasParam(probe.url, MaxResultsName, 10)
    /\ HasParam(probe.url, StartAtName, 5)

\* C9: for Keys(ids) the query of the built URL is id in (..) where each id
\* is URL-escaped on its own and the escaped ids are joined with a literal
\* comma, so that no reserved character of an id stands unescaped in the URL.
C9_KeysEscaped ==
    (probe.built /\ probe.method.tag = "Keys")
        => Contains(probe.url,
                    <<"j", "q", "l", "=", "i", "d", "%", "2", "0", "i", "n",
                      "%", "2", "0", "(">>
                      \o EscapedJoin(probe.method.arg) \o <<")">>)

\* C10: issue(key) issues exactly one HTTP request, against Key(key), under
\* every pagination policy, and returns the one decoded issue or the error
\* of that request.
C10_IssueSingleRequest ==
    op.name = "issue"
        => /\ Len(requests) = 1
           /\ requests[1].method = Key(op.method.arg[1])
           /\ requests[1].method.tag = "Key"
           /\ pc = "done"
                => result = IF Succeeded THEN Ok(<< <<1, 1>> >>)
                            ELSE Err(FailureKind)

C10_Witness ==
    /\ op.name = "issue"
    /\ pagination.tag = "ChunkSize"
    /\ pagination.n > 0
    /\ pc = "done"
    /\ result = Ok(<< <<1, 1>> >>)

\* C11: every HTTP request of issue, issues and search, every page of a
\* chunked loop included, carries exactly the credential of the configured
\* auth variant: none for Anonymous, a bearer header with the token for
\* ApiKey(token), basic user and password for Basic.
C11_RequestsCarryConfiguredAuth ==
    \A i \in 1..Len(requests) :
        LET carried == requests[i].authorization
        IN  /\ auth.tag = "Anonymous"
                => (carried.scheme = "none" /\ carried.value = <<>>)
            /\ auth.tag = "ApiKey"
                => (carried.scheme = "Bearer" /\ carried.value = <<auth.secret[1]>>)
            /\ auth.tag = "Basic"
                => (carried.scheme = "Basic"
                      /\ carried.value = <<auth.secret[1], auth.secret[2]>>)

\* The second page of a chunked loop under ApiKey.
C11_Witness ==
    /\ auth = ApiKey("t")
    /\ op.chunked
    /\ Len(requests) >= 2
    /\ requests[2].authorization = [scheme |-> "Bearer", value |-> <<"t">>]

\* C13: within one issues or search operation at most one HTTP request is
\* outstanding at any time, request N+1 being issued only after the response
\* of request N was received and decoded, so that the requests of a chunked
\* loop are issued in strictly increasing offset order.
C13_OneOutstandingIncreasingOffsets ==
    op.name \in {"issues", "search"}
        => /\ Len(requests) - Len(pages) \in {0, 1}
           /\ (pc \in {"send", "json"}) => Len(requests) = Len(pages) + 1
           /\ op.chunked
                => \A i \in 1..Len(requests) : \A j \in 1..Len(requests) :
                       i < j => requests[i].start_at < requests[j].start_at

\* C18: a page fetch whose response has a failure status is reported as a
\* transport error, a body that does not match the schema as a decode error,
\* and in both cases the error is passed up as it is and the failed request
\* is not issued again.
C18_StatusIsTransportError ==
    (pc = "done" /\ resp.net = "ok" /\ ~resp.schema)
        => /\ result = Err(IF resp.status = 200 THEN "Decode" ELSE "Transport")
           /\ Len(requests) = Len(pages) + 1

\* C19: under ChunkSize(c), c > 0, issues(keys) with a non-empty key list
\* never fails with NoIssues; when the remote returns zero issues on the
\* first request the operation succeeds with the empty list.
C19_ChunkedIssuesNeverNoIssues ==
    (op.name = "issues" /\ Len(op.method.arg) > 0 /\ op.chunked
       /\ op.chunk_size > 0)
        => /\ result.err # "NoIssues"
           /\ (Len(pages) >= 1 /\ pages[1] = 0)
                => (pc = "done" /\ result = Ok(<<>>) /\ Len(requests) = 1)

C19_Witness ==
    /\ op.name = "issues"
    /\ Len(op.method.arg) > 0
    /\ pagination.tag = "ChunkSize"
    /\ op.chunk_size > 0
    /\ pages = <<0>>
    /\ pc = "done"
    /\ result = Ok(<<>>)

\* C15: JiraInstance::at(host) yields that host with auth Anonymous and
\* pagination Default; after any sequence of builder steps authenticate(a)
\* changes only auth, paginate(p) only pagination and with_client(c) only the
\* client, host and the other fields staying as they were, and the value set
\* last for a field is the one in effect.
C15_BuilderFrame ==
    /\ [](pc = "idle"
            => /\ host \in HostPool
               /\ last_step.field = "none"
                    => (auth = Anonymous /\ pagination = Default
                          /\ client = "default")
               /\ last_step.field = "auth" => auth = last_step.auth
               /\ last_step.field = "pagination"
                    => pagination = last_step.pagination
               /\ last_step.field = "client" => client = last_step.client)
    /\ [][(pc = "idle" /\ pc' = "idle")
            => /\ host' = host
               /\ last_step'.field \in {"auth", "pagination", "client"}
               /\ last_step'.field = "auth"
                    => (pagination' = pagination /\ client' = client)
               /\ last_step'.field = "pagination"
                    => (auth' = auth /\ client' = client)
               /\ last_step'.field = "client"
                    => (auth' = auth /\ pagination' = pagination)]_vars

\* Three builder steps, paginate last: the earlier values are still there.
C15_Witness ==
    /\ pc = "idle"
    /\ last_step.field = "pagination"
    /\ pagination = ChunkSize(2)
    /\ auth = Basic("u", "p")
    /\ client = "custom"

\* C12: a chunk size of zero never causes an infinite loop: under
\* ChunkSize(0), issues(keys) with keys and search(query) are rejected or
\* end after finitely many requests, whatever the remote answers.
C12_ZeroChunkTerminates ==
    (op.chunked /\ op.chunk_size = 0 /\ pc = "send") ~> (pc = "done")

\* The place in the remote's list of an issue of the result: the offset of
\* the request that fetched it plus its position in the page.
RemoteIndex(label) == requests[label[1]].start_at + label[2]

RemoteIndexes(labels) == [i \in 1..Len(labels) |-> RemoteIndex(labels[i])]

\* C14: against a remote that holds a fixed ordered list of T matching issues
\* and answers a request at offset s with the issues s .. s+min(c, m), m being
\* its own page cap and 0 < c <= m, search under ChunkSize(c) terminates and
\* returns all T issues, each once, in the remote's order.
C14_ChunkedSearchReturnsAll ==
    (remote.fixed /\ op.name = "search" /\ op.chunked /\ op.chunk_size > 0
       /\ op.chunk_size <= remote.cap)
        => /\ Len(requests) <= (remote.total \div op.chunk_size) + 1
           /\ pc # "done" => ENABLED RemoteNext
           /\ pc = "done"
                => /\ result.tag = "Ok"
                   /\ RemoteIndexes(result.issues) = [i \in 1..remote.total |-> i]

C14_Witness ==
    /\ remote = [total |-> 3, cap |-> 2, fixed |-> TRUE]
    /\ op.name = "search"
    /\ pagination = ChunkSize(2)
    /\ pc = "done"
    /\ Len(requests) = 2
    /\ Len(result.issues) = 3

\* C17: in a chunked loop under ChunkSize(c), c > 0, a page of exactly c
\* issues never ends the loop: the next request is issued at the offset
\* increased by c.  Hence when the total T is a positive multiple of c the
\* loop issues T/c + 1 requests, the last of which returns an empty page, and
\* the result still has exactly T issues.
C17_FullPageContinues ==
    (remote.fixed /\ op.chunked /\ op.chunk_size > 0)
        => /\ \A i \in 1..Len(pages) :
                  pages[i] = op.chunk_size
                    => /\ Len(requests) > i
                       /\ requests[i + 1].start_at
                            = requests[i].start_at + op.chunk_size
           /\ (pc = "done" /\ Len(requests) > 0 /\ remote.total > 0
                 /\ remote.total % op.chunk_size = 0
                 /\ op.chunk_size <= remote.cap)
                => /\ Len(requests) = (remote.total \div op.chunk_size) + 1
                   /\ pages[Len(pages)] = 0
                   /\ result.tag = "Ok"
                   /\ Len(result.issues) = remote.total

C17_Witness ==
    /\ remote = [total |-> 2, cap |-> 2, fixed |-> TRUE]
    /\ pagination = ChunkSize(2)
    /\ op.name = "search"
    /\ pages = <<2, 0>>
    /\ Len(requests) = 2
    /\ pc = "done"
    /\ Len(result.issues) = 2

\* C20: when the server caps every page at m issues, 0 < m < c, a chunked
\* loop under ChunkSize(c) takes the first capped page for the last one: it
\* stops after one request and returns only the first m issues, also when
\* the remote holds more than m matching issues.
C20_CappedPageEndsLoop ==
    (remote.fixed /\ op.chunked /\ Len(requests) > 0
       /\ 0 < remote.cap /\ remote.cap < op.chunk_size)
        => /\ Len(requests) = 1
           /\ pc = "done"
                => /\ result.tag = "Ok"
                   /\ RemoteIndexes(result.issues)
                        = [i \in 1..Min(remote.cap, remote.total) |-> i]

C20_Witness ==
    /\ remote = [total |-> 3, cap |-> 1, fixed |-> TRUE]
    /\ pagination = ChunkSize(2)
    /\ op.name = "search"
    /\ pc = "done"
    /\ Len(requests) = 1
    /\ result = Ok(<< <<1, 1>> >>)

\* The operations in flight: the polled one and the suspended ones.
Operations == {Locals} \cup { tasks[t] : t \in Task \ {current} }

\* What the operation with locals l returns when it runs alone and the
\* remote gives it the answers l has received.
AloneResult(l) ==
    LET all == ConcatPages(l.pages, Len(l.pages))
    IN  IF l.requests = <<>> THEN Ok(<<>>)
        ELSE IF l.resp.net = "failed" THEN Err("Transport")
        ELSE IF ~l.resp.schema THEN Err("Decode")
        ELSE IF l.op.name = "issues" /\ ~l.op.chunked /\ all = <<>>
        THEN Err("NoIssues")
        ELSE Ok(all)

\* The accumulator of l holds the pages l has decoded, and nothing else.
OwnPagesOnly(l) ==
    l.all_issues = IF l.op.chunked /\ ~(l.pc = "done" /\ l.result.tag = "Err")
                   THEN ConcatPages(l.pages, Len(l.pages))
                   ELSE <<>>

\* The requests of l are those of its own loop under the shared configuration.
OwnRequests(l) ==
    \A i \in 1..Len(l.requests) :
        l.requests[i] = Request(l.op.method, (i - 1) * l.op.chunk_size)

\* C16: when several issue, issues and search operations run side by side
\* on one shared configuration, under every interleaving of their requests
\* and responses, each operation leaves host, auth and pagination unchanged,
\* accumulates only its own pages, and returns the result it would return
\* running alone against the same remote answers.
C16_ConcurrentLikeAlone ==
    /\ [](\A l \in Operations :
              /\ OwnPagesOnly(l)
              /\ OwnRequests(l)
              /\ l.pc = "done" => l.result = AloneResult(l))
    /\ [][~NoneStarted
            => (host' = host /\ auth' = auth /\ pagination' = pagination)]_vars

C16_Witness ==
    /\ pagination = ChunkSize(MaxPage)
    /\ current = 2
    /\ pc = "done"
    /\ op.name = "issues"
    /\ pages = <<MaxPage, 1>>
    /\ Len(result.issues) = MaxPage + 1
    /\ tasks[1].pc = "json"
    /\ tasks[1].op.name = "search"
    /\ tasks[1].pages = <<MaxPage>>
    /\ Len(tasks[1].all_issues) = MaxPage

====
